---- MODULE Spec2Model ----
(***************************************************************************)
(* A model of Code/ETA_Utilities.py: the class ETA_Parameters, its         *)
(* constructor and its two parsers, read_obj and read_constraints.         *)
(*                                                                         *)
(* Numbers.  A Python float is modelled as an exact value n/d * pi^p       *)
(* (a record [n, d, p] in lowest terms), so that the division by           *)
(* src * r_toad**2 * pi * t_toad[ind] is computed exactly and two          *)
(* successive normalisations are told apart from one.                      *)
(*                                                                         *)
(* Text.  A line of a file is the sequence of its comma-separated tokens   *)
(* (what line.split(',') returns); a token is a record [ws1, txt, ws2]:    *)
(* its leading whitespace, its text and its trailing whitespace (the       *)
(* newline of the last token of a line included).                          *)
(***************************************************************************)
EXTENDS Integers, Sequences, FiniteSets, TLC

VARIABLES
    self,       \* the ETA_Parameters object: a record of its attributes, or NoObject
    f,          \* the attribute self.f: "unset", "open" or "closed"
    pc,         \* position of the caller / of the running method
    op,         \* the method that runs or ran last
    result,     \* how the last finished call ended: "ok" or the exception's name
    file,       \* the content of the file named in the current (or last) call
    lines,      \* the lines of the open file not read yet
    spectrum,   \* the local variable spectrum of read_obj (Unbound outside)
    warnings,   \* module_logger.warning calls made by the current (or last) call
    pre,        \* self as it was when the current (or last) call began
    ctor,       \* the arguments the object was constructed with
    calls,      \* parser calls made so far
    derived,    \* runs of the derived min_fiss computation in the current (or last) call
    nread,      \* constraint lines and spectrum rows handed to the parsers so far
    defaults,   \* the content of the default list objects of __init__, by parameter
    shared      \* the list attributes of self that are bound to a default object

vars == <<self, f, pc, op, result, file, lines, spectrum, warnings, pre, ctor, calls, nread, derived,
         defaults, shared>>

-----------------------------------------------------------------------------
(* Bounds of the model *)

\* parser calls in one behaviour
MaxCalls == 2
\* constraint lines and spectrum rows of all the files parsed in one
\* behaviour, taken together
MaxLines == 2

-----------------------------------------------------------------------------
(* Exact arithmetic on values n/d * pi^p *)

RECURSIVE GCD(_, _)
GCD(a, b) == IF b = 0 THEN a ELSE GCD(b, a % b)

Abs(a) == IF a < 0 THEN -a ELSE a

\* the value n/d * pi^p in lowest terms, d > 0; zero is [0, 1, 0]
Norm(n, d, p) ==
    IF n = 0 THEN [n |-> 0, d |-> 1, p |-> 0]
    ELSE LET g == GCD(Abs(n), Abs(d))
             s == IF d < 0 THEN -1 ELSE 1
         IN  [n |-> s * (n \div g), d |-> s * (d \div g), p |-> p]

Q(n, d) == Norm(n, d, 0)

\* math.pi
pi == [n |-> 1, d |-> 1, p |-> 1]

Mul(x, y) == Norm(x.n * y.n, x.d * y.d, x.p + y.p)

\* x / y for y # 0 (Python raises ZeroDivisionError for y = 0)
Div(x, y) == Norm(x.n * y.d, x.d * y.n, x.p - y.p)

IsZero(x) == x.n = 0

-----------------------------------------------------------------------------
(* Text *)

Tok(ws1, txt, ws2) == [ws1 |-> ws1, txt |-> txt, ws2 |-> ws2]

\* a token written without whitespace around it
T(txt) == Tok("", txt, "")

\* the last token of a line, with the line's newline
TN(txt) == Tok("", txt, "\n")

\* str.strip(): the token without its leading and trailing whitespace
strip(tok) == tok.txt

\* str.lower() on the texts that hold an upper-case letter; any other text
\* is its own lower-case form
LowerTable ==
    ("Minimum Fissions" :> "minimum fissions") @@
    ("ETA Max Weight" :> "eta max weight") @@
    ("ETA MAX WEIGHT" :> "eta max weight") @@
    ("Source Strength" :> "source strength") @@
    ("TCC to ETA Distance" :> "tcc to eta distance") @@
    ("Debris Shield Thickness" :> "debris shield thickness") @@
    ("ETA Wall Thickness" :> "eta wall thickness") @@
    ("Snout Distance" :> "snout distance") @@
    ("ETA Back Cover Thickness" :> "eta back cover thickness") @@
    ("ETA to Snout Mount Thickness" :> "eta to snout mount thickness") @@
    ("ETA Face Radius" :> "eta face radius") @@
    ("ETA Cone Outer Radius" :> "eta cone outer radius") @@
    ("ETA Cone Opening Angle" :> "eta cone opening angle") @@
    ("Debris Shield Material" :> "debris shield material") @@
    ("ETA Structural Material" :> "eta structural material") @@
    ("ETA Void Fill Material" :> "eta void fill material") @@
    ("Fissile Foil" :> "fissile foil") @@
    ("NAS Thickness" :> "nas thickness") @@
    ("NAS Radius" :> "nas radius") @@
    ("NAS Material" :> "nas material") @@
    ("NAS Activation Foils" :> "nas activation foils") @@
    ("NAS Activation Foil Thickness" :> "nas activation foil thickness") @@
    ("NAS Activation Foil Radius" :> "nas activation foil radius") @@
    ("TOAD Follows Material" :> "toad follows material") @@
    ("TOAD Material" :> "toad material") @@
    ("TOAD Activation Foils" :> "toad activation foils") @@
    ("TOAD Activation Foil Thickness" :> "toad activation foil thickness") @@
    ("TOAD Activation Foil Radius" :> "toad activation foil radius") @@
    ("Holder Material" :> "holder material") @@
    ("Holder Fill Material" :> "holder fill material") @@
    ("Holder Wall Thickness" :> "holder wall thickness") @@
    ("Max Vertical Components" :> "max vertical components") @@
    ("Max Horizontal Components" :> "max horizontal components") @@
    ("Foo" :> "foo") @@
    ("/ Note" :> "/ note")

lower(s) == IF s \in DOMAIN LowerTable THEN LowerTable[s] ELSE s

\* the texts float() accepts, each with its value
FloatTable ==
    ("0" :> Q(0, 1)) @@
    ("1" :> Q(1, 1)) @@
    ("2" :> Q(2, 1)) @@
    ("3" :> Q(3, 1)) @@
    ("4" :> Q(4, 1)) @@
    ("8" :> Q(8, 1)) @@
    ("16" :> Q(16, 1)) @@
    ("50" :> Q(50, 1)) @@
    ("1.0" :> Q(1, 1)) @@
    ("2.0" :> Q(2, 1)) @@
    ("100.0" :> Q(100, 1)) @@
    ("0.5" :> Q(1, 2)) @@
    ("0.1" :> Q(1, 10)) @@
    ("0.05" :> Q(1, 20)) @@
    ("1e0" :> Q(1, 1))

\* the texts int() accepts, each with its value
IntTable ==
    ("0" :> Q(0, 1)) @@
    ("1" :> Q(1, 1)) @@
    ("2" :> Q(2, 1)) @@
    ("3" :> Q(3, 1)) @@
    ("4" :> Q(4, 1)) @@
    ("8" :> Q(8, 1)) @@
    ("16" :> Q(16, 1)) @@
    ("50" :> Q(50, 1))

Parse(table, s) ==
    IF s \in DOMAIN table THEN [ok |-> TRUE, val |-> table[s]] ELSE [ok |-> FALSE]

\* float(s): the value, or ValueError (ok = FALSE)
float(s) == Parse(FloatTable, s)

\* int(s): the value, or ValueError (ok = FALSE)
int(s) == Parse(IntTable, s)

-----------------------------------------------------------------------------
(* Python sequences *)

\* seq[k] with Python's zero-based index k, negative k counting from the end;
\* IndexError (ok = FALSE) outside -len .. len-1
PyIndex(seq, k) ==
    IF k >= 0 /\ k < Len(seq) THEN [ok |-> TRUE, val |-> seq[k + 1]]
    ELSE IF k < 0 /\ -k <= Len(seq) THEN [ok |-> TRUE, val |-> seq[Len(seq) + k + 1]]
    ELSE [ok |-> FALSE]

\* the largest element of a non-empty finite set of integers
Max(S) == CHOOSE m \in S : \A x \in S : x <= m

\* the smallest element of a non-empty finite set of integers
Min(S) == CHOOSE m \in S : \A x \in S : m <= x

-----------------------------------------------------------------------------
(* The keywords of read_constraints, in the order of its case chain: the    *)
(* keyword as written in the source, the attribute it assigns and the      *)
(* conversion applied to the value tokens.                                 *)

KW(kw, attr, conv) == [kw |-> kw, attr |-> attr, conv |-> conv]

KeywordTable ==
    << KW("Minimum Fissions", "min_fiss", "float"),
       KW("ETA Max Weight", "max_weight", "float"),
       KW("Source Strength", "src", "float"),
       KW("TCC to ETA Distance", "tcc_dist", "float"),
       KW("Debris Shield Thickness", "t_ds", "float"),
       KW("ETA Wall Thickness", "t_w", "float"),
       KW("Snout Distance", "snout_dist", "float"),
       KW("ETA Back Cover Thickness", "t_c", "float"),
       KW("ETA to Snout Mount Thickness", "t_m", "float"),
       KW("ETA Face Radius", "r_f", "float"),
       KW("ETA Cone Outer Radius", "r_o", "float"),
       KW("ETA Cone Opening Angle", "theta", "float"),
       KW("Debris Shield Material", "ds_mat", "str"),
       KW("ETA Structural Material", "struct_mat", "str"),
       KW("ETA Void Fill Material", "fill_mat", "str"),
       KW("Fissile Foil", "fissile_mat", "str"),
       KW("NAS Thickness", "t_nas", "float"),
       KW("NAS Radius", "r_nas", "float"),
       KW("NAS Material", "nas_mat", "str"),
       KW("NAS Activation Foils", "nas_mat_f", "strlist"),
       KW("NAS Activation Foil Thickness", "t_nas_f", "floatlist"),
       KW("NAS Activation Foil Radius", "r_nas_f", "float"),
       KW("TOAD Follows Material", "toad_loc", "str"),
       KW("TOAD Material", "toad_mat", "str"),
       KW("TOAD Activation Foils", "toad_mat_f", "strlist"),
       KW("TOAD Activation Foil Thickness", "t_toad", "floatlist"),
       KW("TOAD Activation Foil Radius", "r_toad", "float"),
       KW("Holder Material", "holder_mat", "str"),
       KW("Holder Fill Material", "h_fill_mat", "str"),
       KW("Holder Wall Thickness", "t_h", "float"),
       KW("Max Vertical Components", "max_vert", "int"),
       KW("Max Horizontal Components", "max_horiz", "int") >>

\* util.Switch: case(a) is true when the switched value equals a, exactly
case(value, a) == value = a

\* the switched value of a line: split_list[0].strip().lower()
Key(line) == lower(strip(line[1]))

\* the arguments of the cases: 'Minimum Fissions'.lower(), ...
CaseLabels == [i \in DOMAIN KeywordTable |-> lower(KeywordTable[i].kw)]

\* the entries of the case chain the line's keyword matches
Matching(line) ==
    LET key == Key(line)
    IN  { i \in DOMAIN KeywordTable : case(key, CaseLabels[i]) }

\* a list keyword that takes one value only, like the scalar keywords
ListTokensFirst(line) ==
    [i \in 1 .. (IF Len(line) > 1 THEN 1 ELSE 0) |-> strip(line[i + 1])]

\* the value tokens of a list keyword: for i in range(1, len(split_list))
ListTokens(line) == [i \in 1 .. (Len(line) - 1) |-> strip(line[i + 1])]

\* the tokens before the first one float() rejects (all of them if none is)
FloatPrefix(toks) ==
    LET bad == { i \in DOMAIN toks : ~float(toks[i]).ok }
        n   == IF bad = {} THEN Len(toks) ELSE Min(bad) - 1
    IN  [i \in 1 .. n |-> float(toks[i]).val]

Outcome(s, exc, warned) == [self |-> s, exc |-> exc, warned |-> warned]

\* the assignment of one matched case: the converted value, or the exception
\* the conversion raises.  A list attribute is rebound to a new list first
\* and filled token by token, so a rejected token leaves the tokens before it.
Assign(s, e, line) ==
    IF e.conv = "strlist"
    THEN Outcome([s EXCEPT ![e.attr] = ListTokens(line)], "none", 0)
    ELSE IF e.conv = "floatlist"
    THEN LET toks == ListTokens(line)
             vals == FloatPrefix(toks)
         IN  Outcome([s EXCEPT ![e.attr] = vals],
                     IF Len(vals) = Len(toks) THEN "none" ELSE "ValueError", 0)
    ELSE IF Len(line) < 2
    THEN Outcome(s, "IndexError", 0)
    ELSE LET txt == strip(line[2])
         IN  IF e.conv = "str"
             THEN Outcome([s EXCEPT ![e.attr] = txt], "none", 0)
             ELSE LET v == IF e.conv = "int" THEN int(txt) ELSE float(txt)
                  IN  IF v.ok
                      THEN Outcome([s EXCEPT ![e.attr] = v.val], "none", 0)
                      ELSE Outcome(s, "ValueError", 0)

\* the case chain without its comment case: a line '/' reaches the default
DispatchNoComment(s, line) ==
    LET m == Matching(line)
    IN  IF m # {}
        THEN Assign(s, KeywordTable[Min(m)], line)
        ELSE Outcome(s, "none", 1)

\* one pass of the loop body of read_constraints over a line: the first
\* matching case, the comment case '/', or the default case and its warning
Dispatch(s, line) ==
    LET m == Matching(line)
    IN  IF m # {}
        THEN Assign(s, KeywordTable[Min(m)], line)
        ELSE IF case(Key(line), "/")
        THEN Outcome(s, "none", 0)
        ELSE Outcome(s, "none", 1)

\* the lookup with the constructor's fallback: -1 when there is no match
FissileIndexOrLast(s) ==
    LET hits == { i \in DOMAIN s.toad_mat_f : s.toad_mat_f[i] = s.fissile_mat }
    IN  [bound |-> TRUE, ind |-> IF hits = {} THEN -1 ELSE Max(hits) - 1]

\* the index the loop at the end of read_constraints leaves in ind: the last
\* i with toad_mat_f[i] == fissile_mat; ind stays unbound when there is none
FissileIndex(s) ==
    LET hits == { i \in DOMAIN s.toad_mat_f : s.toad_mat_f[i] = s.fissile_mat }
    IN  IF hits = {} THEN [bound |-> FALSE] ELSE [bound |-> TRUE, ind |-> Max(hits) - 1]

\* min_fiss / (src * r_toad**2 * pi * t_toad[ind]): the value, or the
\* exception the expression raises
Normalized(min_fiss, s, ind) ==
    LET t == PyIndex(s.t_toad, ind)
    IN  IF ~t.ok THEN [exc |-> "IndexError"]
        ELSE LET den == Mul(Mul(Mul(s.src, Mul(s.r_toad, s.r_toad)), pi), t.val)
             IN  IF IsZero(den) THEN [exc |-> "ZeroDivisionError"]
                 ELSE [exc |-> "none", val |-> Div(min_fiss, den)]

-----------------------------------------------------------------------------
(* The object *)

\* no object: before a successful construction
NoObject == [constructed |-> FALSE]

\* a local variable that has not been assigned
Unbound == [bound |-> FALSE]

Bound(v) == [bound |-> TRUE, val |-> v]

\* a file name that open() cannot open
Missing == [exists |-> FALSE]

\* a file that open() opens, with its lines
File(ls) == [exists |-> TRUE, lines |-> ls]

\* np.array / np.asarray of a list of rows: a one-dimensional empty array for
\* the empty list, an n x 2 array for n rows of two floats
asarray(rows) ==
    [shape |-> IF Len(rows) = 0 THEN <<0>> ELSE <<Len(rows), 2>>, data |-> rows]

\* the index the constructor computes:
\*   next((i for i in enumerate(toad_mat_f) if i == fissile_mat), -1)
\* enumerate yields the tuples (position, material), and a tuple never equals
\* the string fissile_mat
TupleEqStr(tuple, str) == FALSE

CtorIndex(toad_mat_f, fissile_mat) ==
    LET hits == { i \in DOMAIN toad_mat_f :
                      TupleEqStr(<<i - 1, toad_mat_f[i]>>, fissile_mat) }
    IN  IF hits = {} THEN -1 ELSE Min(hits) - 1

\* the attributes __init__ assigns from its arguments, min_fiss still the
\* argument's value
Attributes(a) ==
    [ spectrum_type |-> a.spectrum_type, spectrum |-> a.spectrum,
      min_fiss |-> a.min_fiss, max_weight |-> a.max_weight, src |-> a.src,
      tcc_dist |-> a.tcc_dist, t_ds |-> a.debris_shield_thickness,
      t_w |-> a.wall_thickness, snout_dist |-> a.snout_dist,
      t_c |-> a.cover_thickness, t_m |-> a.mount_thickness,
      r_f |-> a.face_radius, r_o |-> a.eta_or, theta |-> a.cone_angle,
      ds_mat |-> a.debris_shield_mat, struct_mat |-> a.struct_mat,
      fill_mat |-> a.fill_mat, fissile_mat |-> a.fissile_mat,
      t_nas |-> a.nas_th, r_nas |-> a.nas_r, nas_mat |-> a.nas_mat,
      t_nas_f |-> a.nas_foil_th, r_nas_f |-> a.nas_foil_r,
      nas_mat_f |-> a.nas_foil_mat, toad_loc |-> a.toad_loc,
      toad_mat |-> a.toad_mat, t_toad |-> a.toad_foil_th,
      r_toad |-> a.toad_foil_r, toad_mat_f |-> a.toad_foil_mat,
      holder_mat |-> a.holder_mat, h_fill_mat |-> a.holder_fill_mat,
      t_h |-> a.holder_thickness,
      max_vert |-> a.max_vert, max_horiz |-> a.max_horiz ]

-----------------------------------------------------------------------------
(* Inputs *)

\* The arguments of the constructor: its defaults, except that min_fiss, src,
\* toad_foil_r and toad_foil_th (the operands of the derived min_fiss) take
\* small values, so that their products stay within 32-bit integers.
Args0 ==
    [ spectrum_type |-> "normalized differential", spectrum |-> asarray(<<>>),
      min_fiss |-> Q(8, 1), max_weight |-> Q(125, 1), src |-> Q(1, 1),
      tcc_dist |-> Q(381, 25), debris_shield_thickness |-> Q(3, 10),
      wall_thickness |-> Q(1, 2), snout_dist |-> Q(2607, 50),
      cover_thickness |-> Q(1, 1), mount_thickness |-> Q(12, 5),
      face_radius |-> Q(137, 25), eta_or |-> Q(939, 100), cone_angle |-> Q(3511, 50),
      debris_shield_mat |-> "Al", struct_mat |-> "Al",
      fill_mat |-> "Air (dry near sea level)", fissile_mat |-> "Pb",
      nas_th |-> Q(7, 500), nas_r |-> Q(269, 100), nas_mat |-> "Al",
      nas_foil_th |-> <<Q(1, 10), Q(1, 10), Q(1, 10), Q(1, 10), Q(1, 100)>>,
      nas_foil_r |-> Q(5, 2), nas_foil_mat |-> <<"Zr", "Zn", "In", "Al", "Ta">>,
      toad_loc |-> "In",
      toad_mat |-> "Al", toad_foil_th |-> <<Q(2, 1), Q(1, 1)>>,
      toad_foil_r |-> Q(1, 1), toad_foil_mat |-> <<"Au", "Pb">>,
      holder_mat |-> "Al", holder_fill_mat |-> "Fe", holder_thickness |-> Q(2, 1),
      max_vert |-> Q(3, 1), max_horiz |-> Q(7, 1) ]

\* the argument lists the constructor is called with
CtorArgs ==
    { Args0,
      \* the fissile material is the first TOAD foil, not the last
      [Args0 EXCEPT !.toad_foil_mat = <<"Pb", "Au">>],
      \* the fissile material is no TOAD foil; a spectrum is given
      [Args0 EXCEPT !.fissile_mat = "U",
                    !.spectrum = asarray(<< <<Q(4, 1), Q(1, 2)>> >>)],
      \* more TOAD thicknesses than TOAD materials
      [Args0 EXCEPT !.toad_foil_th = <<Q(2, 1), Q(1, 1), Q(1, 1)>>],
      \* fewer NAS materials than NAS thicknesses
      [Args0 EXCEPT !.nas_foil_mat = <<"Zr">>],
      \* no TOAD foil at all
      [Args0 EXCEPT !.toad_foil_th = <<>>, !.toad_foil_mat = <<>>],
      \* no source
      [Args0 EXCEPT !.src = Q(0, 1)] }

\* the sequences of at most n elements of S
RECURSIVE SeqsUpTo(_, _)
SeqsUpTo(S, n) ==
    IF n = 0 THEN { <<>> }
    ELSE LET shorter == SeqsUpTo(S, n - 1)
         IN  shorter \cup { Append(q, x) : q \in shorter, x \in S }

\* The lines of constraints files, in suites: a file is made of the lines of
\* one suite.
DerivedSuite ==
    { <<T("Minimum Fissions"), TN("16")>>,
      <<T("Minimum Fissions"), TN("4")>>,
      <<T("Source Strength"), TN("2")>>,
      <<T("Fissile Foil"), TN("Au")>>,
      <<T("TOAD Activation Foil Radius"), TN("2")>> }

ListSuite ==
    { <<T("TOAD Activation Foils"), T("Pb"), TN("Au")>>,
      <<T("TOAD Activation Foils"), T("Au"), T("Pb"), TN("U")>>,
      <<T("TOAD Activation Foil Thickness"), T("4"), TN("8")>>,
      <<T("NAS Activation Foils"), TN("Zr")>>,
      <<T("Fissile Foil"), TN("Au")>> }

ScalarSuite ==
    { <<T("ETA Max Weight"), TN("100.0")>>,
      <<Tok(" ", "ETA MAX WEIGHT", " "), Tok(" ", "50", " \n")>>,
      <<T("Max Vertical Components"), TN("4")>>,
      <<T("/"), T("ETA Max Weight"), TN("1")>>,
      <<T("Foo"), TN("1")>> }

MalformedSuite ==
    { <<T("ETA Max Weight"), TN("abc")>>,
      <<TN("ETA Max Weight")>>,
      <<T("TOAD Activation Foil Thickness"), T("0.5"), T("x"), TN("1")>>,
      <<T("/ Note"), T("ETA Max Weight"), TN("1")>>,
      <<T("ETA Max Weight"), TN("100.0")>> }

Suites == { DerivedSuite, ListSuite, ScalarSuite, MalformedSuite }

\* what read_constraints is called with: a name open() rejects, or a file
ConstraintFiles ==
    { Missing } \cup { File(ls) : ls \in UNION { SeqsUpTo(S, MaxLines) : S \in Suites } }

\* The first lines of spectrum files, the spectrum type, and their rows
TypeLines ==
    { <<TN("normalized")>>,
      <<Tok(" ", "normalized lethargy", " \n")>> }

Rows ==
    { <<T("2.0"), TN("0.05")>>,
      <<Tok(" ", "1.0", " "), Tok(" ", "0.1", "\n")>>,
      <<T("x"), TN("1")>> }

\* what read_obj is called with: a name open() rejects, an empty file, or a
\* type line and rows
SpectrumFiles ==
    { Missing, File(<<>>) } \cup
    { File(<<t>> \o rs) : t \in TypeLines, rs \in SeqsUpTo(Rows, MaxLines) }

-----------------------------------------------------------------------------
(* The default list objects *)

\* The default values of the list parameters of __init__ are objects made
\* once, when the def statement runs: every call that leaves the parameter out
\* receives the same object.
DefaultObjects ==
    [ spectrum |-> Args0.spectrum,
      nas_foil_th |-> Args0.nas_foil_th, nas_foil_mat |-> Args0.nas_foil_mat,
      toad_foil_th |-> Args0.toad_foil_th, toad_foil_mat |-> Args0.toad_foil_mat ]

\* the list attributes and the parameter __init__ binds each of them to
ListParam ==
    [ spectrum |-> "spectrum",
      t_nas_f |-> "nas_foil_th", nas_mat_f |-> "nas_foil_mat",
      t_toad |-> "toad_foil_th", toad_mat_f |-> "toad_foil_mat" ]

\* the list attributes __init__ binds to a default object: the caller passes
\* the arguments that differ from the defaults and leaves the others out
Omitted(a) == { x \in DOMAIN ListParam : a[ListParam[x]] = Args0[ListParam[x]] }

\* the list keyword filling the list the attribute is bound to, without
\* rebinding it first
Refill(d, sh, attr, vals) ==
    [ defaults |-> IF attr \in sh THEN [d EXCEPT ![ListParam[attr]] = vals] ELSE d,
      shared |-> sh ]

\* self.attr=[] followed by the appends to self.attr, and
\* self.spectrum=np.asarray(spectrum): the attribute is bound to a new object
\* holding vals, and the object it was bound to is not touched
Rebind(d, sh, attr, vals) ==
    [ defaults |-> d, shared |-> sh \ {attr} ]

\* the list attribute the case of the line assigns, "none" without one
ListAttr(line) ==
    LET m == Matching(line)
    IN  IF m # {} /\ KeywordTable[Min(m)].conv \in {"strlist", "floatlist"}
        THEN KeywordTable[Min(m)].attr
        ELSE "none"

\* what the assignment of a line does to the bindings of the list attributes
Bindings(d, sh, line, s) ==
    IF ListAttr(line) = "none" THEN [defaults |-> d, shared |-> sh]
    ELSE Rebind(d, sh, ListAttr(line), s[ListAttr(line)])

\* a second model, constructed with the default arguments: its attributes as
\* they were when it was constructed
Other0 ==
    LET s == Attributes(Args0)
    IN  [s EXCEPT !.min_fiss =
             Normalized(Args0.min_fiss, s, CtorIndex(s.toad_mat_f, s.fissile_mat)).val]

\* the attributes of the second model as they read now: its list attributes
\* are bound to the default objects
other == [x \in DOMAIN Other0 |->
             IF x \in DOMAIN ListParam THEN defaults[ListParam[x]] ELSE Other0[x]]

-----------------------------------------------------------------------------
(* The state machine *)

Init ==
    /\ self = NoObject
    /\ f = "unset"
    /\ pc = "new"
    /\ op = "none"
    /\ result = "none"
    /\ file = Missing
    /\ lines = <<>>
    /\ spectrum = Unbound
    /\ warnings = 0
    /\ pre = NoObject
    /\ ctor = NoObject
    /\ calls = 0
    /\ nread = 0
    /\ derived = 0
    /\ defaults = DefaultObjects
    /\ shared = {}

\* the exception exc leaves the running method and reaches the caller
Raise(exc) ==
    /\ result' = exc
    /\ pc' = "idle"

\* ETA_Parameters(**a): the two assertions, the assignments, the derived
\* min_fiss.  An exception leaves no object behind.
ETA_Parameters_init(a) ==
    /\ pc = "new"
    /\ op' = "__init__"
    /\ LET s == Attributes(a)
           r == Normalized(a.min_fiss, s, CtorIndex(s.toad_mat_f, s.fissile_mat))
           exc == IF Len(a.nas_foil_th) # Len(a.nas_foil_mat) THEN "AssertionError"
                  ELSE IF Len(a.toad_foil_th) # Len(a.toad_foil_mat) THEN "AssertionError"
                  ELSE r.exc
       IN  IF exc = "none"
           THEN /\ self' = [s EXCEPT !.min_fiss = r.val]
                /\ ctor' = a
                /\ shared' = Omitted(a)
                /\ result' = "ok"
                /\ pc' = "idle"
           ELSE /\ result' = exc
                /\ UNCHANGED <<self, ctor, pc, shared>>
    /\ UNCHANGED <<f, file, lines, spectrum, warnings, pre, calls, nread, derived, defaults>>

\* a parser is called with a file of n constraint lines or spectrum rows: the
\* call begins
Begin(method, fl, n) ==
    /\ pc = "idle"
    /\ calls < MaxCalls
    /\ n <= MaxLines - nread
    /\ calls' = calls + 1
    /\ nread' = nread + n
    /\ op' = method
    /\ file' = fl
    /\ pre' = self
    /\ warnings' = 0
    /\ derived' = 0
    /\ result' = "running"

\* read_constraints, line 358: self.f = open(filename, 'r'); an IOError is
\* caught and logged (lines 492-494), and self.f is left as it was
read_constraints_open(fl) ==
    /\ Begin("read_constraints", fl, IF fl.exists THEN Len(fl.lines) ELSE 0)
    /\ IF fl.exists
       THEN /\ f' = "open"
            /\ lines' = fl.lines
            /\ pc' = "rc_loop"
       ELSE /\ lines' = <<>>
            /\ pc' = "rc_check"
            /\ UNCHANGED f
    /\ UNCHANGED <<self, spectrum, ctor, defaults, shared>>

\* one line of the file with the derived min_fiss recomputed after it
read_constraints_line_derive ==
    /\ pc = "rc_loop"
    /\ lines # <<>>
    /\ \E d \in { Dispatch(self, Head(lines)) } :
           LET i == FissileIndex(d.self)
               r == IF d.exc # "none" THEN [exc |-> d.exc]
                    ELSE IF i.bound THEN Normalized(d.self.min_fiss, d.self, i.ind)
                    ELSE [exc |-> "UnboundLocalError"]
           IN  /\ self' = IF r.exc = "none" THEN [d.self EXCEPT !.min_fiss = r.val]
                          ELSE d.self
               /\ warnings' = warnings + d.warned
               /\ lines' = Tail(lines)
               /\ derived' = derived + 1
               /\ IF r.exc = "none"
                  THEN UNCHANGED <<pc, result>>
                  ELSE Raise(r.exc)
               /\ \E b \in { Bindings(defaults, shared, Head(lines), d.self) } :
                      defaults' = b.defaults /\ shared' = b.shared
    /\ UNCHANGED <<f, op, file, spectrum, pre, ctor, calls, nread>>

\* read_constraints, lines 361-487: one line of the file
read_constraints_line ==
    /\ pc = "rc_loop"
    /\ lines # <<>>
    /\ \E d \in { Dispatch(self, Head(lines)) } :
           /\ self' = d.self
           /\ warnings' = warnings + d.warned
           /\ lines' = Tail(lines)
           /\ IF d.exc = "none"
              THEN UNCHANGED <<pc, result>>
              ELSE Raise(d.exc)
           /\ \E b \in { Bindings(defaults, shared, Head(lines), d.self) } :
                  defaults' = b.defaults /\ shared' = b.shared
    /\ UNCHANGED <<f, op, file, spectrum, pre, ctor, calls, nread, derived>>

\* read_constraints, line 490: self.f.close()
read_constraints_close ==
    /\ pc = "rc_loop"
    /\ lines = <<>>
    /\ f' = "closed"
    /\ pc' = "rc_check"
    /\ UNCHANGED <<self, op, result, file, lines, spectrum, warnings, pre, ctor, calls, nread, derived, defaults, shared>>

\* the test both parsers make after the try statement:
\*   assert self.f.closed==True
\* AttributeError when self.f was never assigned
Closed(next) ==
    IF f = "closed" THEN /\ pc' = next
                         /\ UNCHANGED result
    ELSE IF f = "unset" THEN Raise("AttributeError")
    ELSE Raise("AssertionError")

\* read_constraints, line 497
read_constraints_check ==
    /\ pc = "rc_check"
    /\ Closed("rc_min_fiss")
    /\ UNCHANGED <<self, f, op, file, lines, spectrum, warnings, pre, ctor, calls, nread, derived, defaults, shared>>

\* read_constraints, lines 500-503: the derived min_fiss, from self.min_fiss
read_constraints_min_fiss ==
    /\ pc = "rc_min_fiss"
    /\ LET i == FissileIndex(self)
           r == IF i.bound THEN Normalized(self.min_fiss, self, i.ind)
                ELSE [exc |-> "UnboundLocalError"]
       IN  IF r.exc = "none"
           THEN /\ self' = [self EXCEPT !.min_fiss = r.val]
                /\ Raise("ok")
           ELSE /\ Raise(r.exc)
                /\ UNCHANGED self
    /\ derived' = derived + 1
    /\ UNCHANGED <<f, op, file, lines, spectrum, warnings, pre, ctor, calls, nread, defaults, shared>>

\* read_obj, line 289: self.f = open(filename, 'r'); an IOError is caught and
\* logged (lines 302-304), and self.f is left as it was
read_obj_open(fl) ==
    /\ Begin("read_obj", fl, IF fl.exists /\ fl.lines # <<>> THEN Len(fl.lines) - 1 ELSE 0)
    /\ IF fl.exists
       THEN /\ f' = "open"
            /\ lines' = fl.lines
            /\ pc' = "ro_type"
       ELSE /\ lines' = <<>>
            /\ pc' = "ro_check"
            /\ UNCHANGED f
    /\ spectrum' = Unbound
    /\ UNCHANGED <<self, ctor, defaults, shared>>

\* readline().strip(): the first line without the whitespace around it, the
\* empty string at the end of the file (the type lines hold no comma)
readline_strip(ls) == IF ls = <<>> THEN "" ELSE strip(Head(ls)[1])

\* read_obj, lines 292-295: the spectrum type and spectrum=[]
read_obj_type ==
    /\ pc = "ro_type"
    /\ self' = [self EXCEPT !.spectrum_type = readline_strip(lines)]
    /\ lines' = IF lines = <<>> THEN <<>> ELSE Tail(lines)
    /\ spectrum' = Bound(<<>>)
    /\ pc' = "ro_loop"
    /\ UNCHANGED <<f, op, result, file, warnings, pre, ctor, calls, nread, derived, defaults, shared>>

\* the row with its two columns exchanged
RowSwapped(line) ==
    LET e == float(strip(line[1]))
    IN  IF ~e.ok THEN [exc |-> "ValueError"]
        ELSE IF Len(line) < 2 THEN [exc |-> "IndexError"]
        ELSE LET fl == float(strip(line[2]))
             IN  IF ~fl.ok THEN [exc |-> "ValueError"]
                 ELSE [exc |-> "none", val |-> <<fl.val, e.val>>]

\* the row [float(split_list[0].strip()), float(split_list[1].strip())] of a
\* line, or the exception its evaluation raises
Row(line) ==
    LET e == float(strip(line[1]))
    IN  IF ~e.ok THEN [exc |-> "ValueError"]
        ELSE IF Len(line) < 2 THEN [exc |-> "IndexError"]
        ELSE LET fl == float(strip(line[2]))
             IN  IF ~fl.ok THEN [exc |-> "ValueError"]
                 ELSE [exc |-> "none", val |-> <<e.val, fl.val>>]

\* read_obj, lines 296-298: one row of the file
read_obj_row ==
    /\ pc = "ro_loop"
    /\ lines # <<>>
    /\ LET r == Row(Head(lines))
       IN  /\ lines' = Tail(lines)
           /\ IF r.exc = "none"
              THEN /\ spectrum' = Bound(Append(spectrum.val, r.val))
                   /\ UNCHANGED <<pc, result>>
              ELSE /\ Raise(r.exc)
                   /\ UNCHANGED spectrum
    /\ UNCHANGED <<self, f, op, file, warnings, pre, ctor, calls, nread, derived, defaults, shared>>

\* read_obj, line 301: self.f.close()
read_obj_close ==
    /\ pc = "ro_loop"
    /\ lines = <<>>
    /\ f' = "closed"
    /\ pc' = "ro_check"
    /\ UNCHANGED <<self, op, result, file, lines, spectrum, warnings, pre, ctor, calls, nread, derived, defaults, shared>>

\* read_obj, line 307
read_obj_check ==
    /\ pc = "ro_check"
    /\ Closed("ro_save")
    /\ UNCHANGED <<self, f, op, file, lines, spectrum, warnings, pre, ctor, calls, nread, derived, defaults, shared>>

\* read_obj, line 310: self.spectrum=np.asarray(spectrum); the local variable
\* spectrum is unbound when open() failed
read_obj_save ==
    /\ pc = "ro_save"
    /\ IF spectrum.bound
       THEN /\ self' = [self EXCEPT !.spectrum = asarray(spectrum.val)]
            /\ \E b \in { Rebind(defaults, shared, "spectrum", asarray(spectrum.val)) } :
                   defaults' = b.defaults /\ shared' = b.shared
            /\ Raise("ok")
       ELSE /\ Raise("UnboundLocalError")
            /\ UNCHANGED <<self, defaults, shared>>
    /\ spectrum' = Unbound
    /\ UNCHANGED <<f, op, file, lines, warnings, pre, ctor, calls, nread, derived>>

\* the caller constructs the object
Construct == pc = "new" /\ \E a \in CtorArgs : ETA_Parameters_init(a)

\* the caller calls read_constraints(filename)
read_constraints == pc = "idle" /\ \E fl \in ConstraintFiles : read_constraints_open(fl)

\* the caller calls read_obj(filename)
read_obj == pc = "idle" /\ \E fl \in SpectrumFiles : read_obj_open(fl)

Next ==
    \/ Construct
    \/ read_constraints
    \/ read_constraints_line
    \/ read_constraints_close
    \/ read_constraints_check
    \/ read_constraints_min_fiss
    \/ read_obj
    \/ read_obj_type
    \/ read_obj_row
    \/ read_obj_close
    \/ read_obj_check
    \/ read_obj_save

Spec == Init /\ [][Next]_vars

-----------------------------------------------------------------------------
(* Vocabulary of the properties *)

Parsers == { "read_obj", "read_constraints" }

\* the last call was to method m and has ended, normally or not
Ended(m) == pc = "idle" /\ op = m

\* the last call was to method m and has returned normally
Returned(m) == Ended(m) /\ result = "ok"

\* the positions of the case chain that are scalar keywords
Scalars == { i \in DOMAIN KeywordTable : KeywordTable[i].conv \in {"float", "int", "str"} }

\* the lines of the file ls that carry the keyword at position i
Carrying(ls, i) == { k \in DOMAIN ls : Key(ls[k]) = CaseLabels[i] }

\* what a line gives for the keyword at position i: the value of its second
\* token for a scalar keyword, all its remaining tokens in order for a list
Given(i, line) ==
    LET c == KeywordTable[i].conv
    IN  IF c = "str" THEN strip(line[2])
        ELSE IF c = "float" THEN float(strip(line[2])).val
        ELSE IF c = "int" THEN int(strip(line[2])).val
        ELSE IF c = "strlist" THEN [k \in 1 .. (Len(line) - 1) |-> strip(line[k + 1])]
        ELSE [k \in 1 .. (Len(line) - 1) |-> float(strip(line[k + 1])).val]

\* src * toad_foil_radius^2 * pi * toad_foil_thickness[i], i counted from 1
Volume(s, i) == Mul(Mul(s.src, Mul(Mul(s.r_toad, s.r_toad), pi)), s.t_toad[i])

\* m is absolute / (src * r^2 * pi * t[i]) for a position i of the fissile
\* material among the TOAD foil materials
NormalizedFrom(m, absolute, s) ==
    \E i \in DOMAIN s.toad_mat_f \cap DOMAIN s.t_toad :
        /\ s.toad_mat_f[i] = s.fissile_mat
        /\ ~IsZero(Volume(s, i))
        /\ Mul(m, Volume(s, i)) = absolute

\* the position of 'Minimum Fissions' in the case chain
MinFissKw == CHOOSE i \in DOMAIN KeywordTable : KeywordTable[i].attr = "min_fiss"

\* every attribute but those of A is as it was when the call began
SameBut(A) == \A a \in (DOMAIN self) \ A : self[a] = pre[a]

\* x < y for two plain fractions
Less(x, y) == x.n * y.d < y.n * x.d

\* the line's keyword is no case of the chain and is not the comment mark
Unrecognized(line) ==
    /\ \A i \in DOMAIN KeywordTable : Key(line) # CaseLabels[i]
    /\ Key(line) # "/"

\* the first tokens, among those of the files parsed, that begin with '/'
SlashTexts == { "/", "/ Note" }

\* the line begins with '/'
BeginsWithSlash(line) == line[1].ws1 = "" /\ line[1].txt \in SlashTexts

\* the next step of read_constraints processes a line that begins with '/'
AtSlashLine == pc = "rc_loop" /\ lines # <<>> /\ BeginsWithSlash(Head(lines))

\* fissile_mat is none of the TOAD foil materials of s
Absent(s) == \A i \in DOMAIN s.toad_mat_f : s.toad_mat_f[i] # s.fissile_mat

\* min_fiss as the lines of the call left it: the last 'Minimum Fissions'
\* value of the file, the value held when the call began without one
Undivided ==
    LET with == IF file.exists THEN Carrying(file.lines, MinFissKw) ELSE {}
    IN  IF with = {} THEN pre.min_fiss
        ELSE Given(MinFissKw, file.lines[Max(with)])

\* the positions of 'Fissile Foil' and 'TOAD Activation Foils' in the case chain
FissileKw == CHOOSE i \in DOMAIN KeywordTable : KeywordTable[i].attr = "fissile_mat"
ToadFoilsKw == CHOOSE i \in DOMAIN KeywordTable : KeywordTable[i].attr = "toad_mat_f"

\* the lines ls with the lines k and k+1 exchanged
Swapped(ls, k) ==
    [j \in DOMAIN ls |-> IF j = k THEN ls[k + 1] ELSE IF j = k + 1 THEN ls[k] ELSE ls[j]]

\* the loop of read_constraints over the lines ls, from the attributes s
RECURSIVE Applied(_, _)
Applied(s, ls) ==
    IF ls = <<>> THEN [exc |-> "none", self |-> s]
    ELSE LET d == Dispatch(s, Head(ls))
         IN  IF d.exc # "none" THEN [exc |-> d.exc, self |-> d.self]
             ELSE Applied(d.self, Tail(ls))

\* a whole read_constraints call on a file of the lines ls that opens and
\* closes, from the attributes s: how it ends and the attributes it leaves
Parsed(s, ls) ==
    LET a == Applied(s, ls)
        i == FissileIndex(a.self)
        r == IF a.exc # "none" THEN [exc |-> a.exc]
             ELSE IF i.bound THEN Normalized(a.self.min_fiss, a.self, i.ind)
             ELSE [exc |-> "UnboundLocalError"]
    IN  IF r.exc = "none"
        THEN [result |-> "ok", self |-> [a.self EXCEPT !.min_fiss = r.val]]
        ELSE [result |-> r.exc, self |-> a.self]

\* a spectrum row of two numbers
WellFormed(line) ==
    Len(line) >= 2 /\ float(strip(line[1])).ok /\ float(strip(line[2])).ok

-----------------------------------------------------------------------------
(* Properties *)

\* C1: after read_constraints returns, min_fiss is the absolute requirement
\* (the file's last 'Minimum Fissions' value, or the value the object was
\* constructed with when the file has no such line) divided by
\* src * toad_foil_radius^2 * pi * toad_foil_thickness[i], i the position of
\* fissile_mat in toad_foil_material.
C1_MinFissFromAbsolute ==
    (Returned("read_constraints") /\ file.exists) =>
        LET with == Carrying(file.lines, MinFissKw)
            absolute == IF with = {} THEN ctor.min_fiss
                        ELSE Given(MinFissKw, file.lines[Max(with)])
        IN  NormalizedFrom(self.min_fiss, absolute, self)

\* C2: a read_constraints call on a file of one line, of a scalar keyword
\* other than 'Minimum Fissions', sets that keyword's attribute to the value
\* given and leaves every other attribute, min_fiss included, as it was.
C2_SingleScalarLineFrame ==
    (Returned("read_constraints") /\ file.exists /\ Len(file.lines) = 1) =>
        \A i \in Scalars \ {MinFissKw} :
            Carrying(file.lines, i) # {} =>
                /\ self[KeywordTable[i].attr] = Given(i, file.lines[1])
                /\ SameBut({KeywordTable[i].attr})

\* C3: after a successful construction and after any read_constraints call
\* that returns normally, the NAS lists have equal lengths and the TOAD lists
\* have equal lengths; before a successful construction there is no object.
C3_FoilListLengths ==
    /\ (Returned("__init__") \/ Returned("read_constraints")) =>
            /\ Len(self.t_nas_f) = Len(self.nas_mat_f)
            /\ Len(self.t_toad) = Len(self.toad_mat_f)
    /\ pc = "new" => self = NoObject

\* C4: a read_obj or read_constraints call whose file cannot be opened never
\* returns normally and changes no attribute.
C4_OpenFailureIsFatal ==
    (pc = "idle" /\ op \in Parsers /\ ~file.exists) =>
        /\ result # "ok"
        /\ self = pre

\* C5: when read_obj or read_constraints has opened its file, the handle is
\* closed when the call ends, however it ends.
C5_HandleClosedAtExit ==
    (pc = "idle" /\ op \in Parsers /\ file.exists) => f = "closed"

\* C6: after a successful construction whose fissile_mat is among
\* toad_foil_material, min_fiss is the min_fiss argument divided by
\* src * toad_foil_radius^2 * pi * toad_foil_thickness[i], i the position of
\* fissile_mat in toad_foil_material.
C6_CtorMinFiss ==
    (Returned("__init__") /\ \E i \in DOMAIN self.toad_mat_f : self.toad_mat_f[i] = self.fissile_mat) =>
        NormalizedFrom(self.min_fiss, ctor.min_fiss, self)

\* C7: after read_constraints returns, each attribute named by a keyword that
\* occurs in the file has the value given on the last line carrying that
\* keyword, all the line's remaining tokens in order for a list keyword; for
\* 'Minimum Fissions' that value is the absolute value the derived min_fiss
\* is computed from.
C7_LastWriteWins ==
    (Returned("read_constraints") /\ file.exists) =>
        \A i \in DOMAIN KeywordTable :
            LET with == Carrying(file.lines, i)
            IN  with # {} =>
                    LET given == Given(i, file.lines[Max(with)])
                    IN  IF i = MinFissKw
                        THEN NormalizedFrom(self.min_fiss, given, self)
                        ELSE self[KeywordTable[i].attr] = given

\* a file whose two lines carry the same keyword with different values has
\* been parsed, and the call returned
C7_Witness ==
    /\ Returned("read_constraints")
    /\ file.exists
    /\ Len(file.lines) = 2
    /\ file.lines[1] # file.lines[2]
    /\ \E i \in DOMAIN KeywordTable : Carrying(file.lines, i) = {1, 2}

\* C8: read_constraints on a file whose only line has an unrecognized
\* keyword leaves all attributes unchanged and emits exactly one warning; in
\* any file each unrecognized line emits exactly one warning and parsing goes
\* on.
C8_UnknownKeyword ==
    (Returned("read_constraints") /\ file.exists) =>
        /\ warnings = Cardinality({ k \in DOMAIN file.lines : Unrecognized(file.lines[k]) })
        /\ (Len(file.lines) = 1 /\ Unrecognized(file.lines[1])) => self = pre

\* C9 as stated: while read_constraints processes a line that begins with
\* '/', the line assigns no attribute and is not reported as an unrecognized
\* keyword, whatever follows the '/'.
C9_SlashLineSilent ==
    [][ AtSlashLine => (self' = self /\ warnings' = warnings) ]_vars

\* C9 as amended: while read_constraints processes a line that begins with
\* '/', the line assigns no attribute; it is skipped without a warning when
\* its first token, trimmed, is exactly '/', and is reported with one warning
\* as an unrecognized keyword when more text follows the '/' in that token.
C9_SlashLine ==
    [][ AtSlashLine =>
            /\ self' = self
            /\ warnings' = warnings + (IF strip(Head(lines)[1]) = "/" THEN 0 ELSE 1)
            /\ result' = result ]_vars

\* read_constraints has processed a first line that begins with '/' and goes
\* on in its first token: a warning, and no attribute changed
C9_Witness ==
    /\ pc = "rc_loop"
    /\ file.exists
    /\ Len(file.lines) = 2
    /\ Len(lines) = 1
    /\ BeginsWithSlash(file.lines[1])
    /\ strip(file.lines[1][1]) # "/"
    /\ warnings = 1
    /\ self = pre

\* C10: read_obj on a file of a type line T and n >= 1 well-formed rows
\* returns, with spectrum_type T trimmed, spectrum the n rows in file order,
\* and every other attribute unchanged.
C10_SpectrumRoundTrip ==
    (Ended("read_obj") /\ file.exists /\ Len(file.lines) >= 2
        /\ \A k \in 2 .. Len(file.lines) : WellFormed(file.lines[k])) =>
        LET n == Len(file.lines) - 1
        IN  /\ result = "ok"
            /\ self.spectrum_type = strip(file.lines[1][1])
            /\ self.spectrum.shape = <<n, 2>>
            /\ self.spectrum.data =
                   [k \in 1 .. n |-> << float(strip(file.lines[k + 1][1])).val,
                                        float(strip(file.lines[k + 1][2])).val >>]
            /\ SameBut({"spectrum_type", "spectrum"})

\* read_obj has returned from a file of two rows, the larger energy first,
\* whose type line has whitespace around it, on an object that held a
\* spectrum
C10_Witness ==
    /\ Returned("read_obj")
    /\ file.exists
    /\ Len(file.lines) = 3
    /\ file.lines[1][1].ws1 # ""
    /\ WellFormed(file.lines[2]) /\ WellFormed(file.lines[3])
    /\ Less(float(strip(file.lines[3][1])).val, float(strip(file.lines[2][1])).val)
    /\ pre.spectrum.data # <<>>
    /\ self.spectrum # pre.spectrum

\* C11 as stated: with fissile_mat absent from toad_foil_material the derived
\* min_fiss computation raises nothing, at construction and at the end of
\* read_constraints, and stores min_fiss divided with some entry of
\* toad_foil_thickness.
C11_NoExplicitFailure ==
    /\ (Returned("__init__") /\ Absent(self)) =>
            \E i \in DOMAIN self.t_toad :
                Mul(self.min_fiss, Volume(self, i)) = ctor.min_fiss
    /\ (Ended("read_constraints") /\ derived = 1 /\ Absent(self)) =>
            /\ result = "ok"
            /\ \E i \in DOMAIN self.t_toad :
                   Mul(self.min_fiss, Volume(self, i)) = Undivided

\* C11: with fissile_mat absent from toad_foil_material, a construction that
\* succeeds has stored the min_fiss argument divided with the last entry of
\* toad_foil_thickness, and the derived computation at the end of
\* read_constraints raises UnboundLocalError and stores nothing: min_fiss is
\* as the lines of the file left it.
C11_UnresolvedFissile ==
    /\ (Returned("__init__") /\ Absent(self)) =>
            Mul(self.min_fiss, Volume(self, Len(self.t_toad))) = ctor.min_fiss
    /\ (Ended("read_constraints") /\ derived = 1 /\ Absent(self)) =>
            /\ result = "UnboundLocalError"
            /\ self.min_fiss = Undivided

\* read_constraints has read a file with a 'Minimum Fissions' line to its end
\* and run the derived computation, on an object constructed with a
\* fissile_mat that was none of its TOAD foil materials and still is none
C11_Witness ==
    /\ Ended("read_constraints")
    /\ derived = 1
    /\ file.exists
    /\ Carrying(file.lines, MinFissKw) # {}
    /\ \A i \in DOMAIN ctor.toad_foil_mat : ctor.toad_foil_mat[i] # ctor.fissile_mat
    /\ Absent(self)
    /\ self.min_fiss # pre.min_fiss

\* C12: in a read_constraints call the derived min_fiss computation does not
\* run while lines are read; it starts when every line is consumed and the
\* handle is closed, and it has run exactly once when the call returns.  It
\* uses the final attribute values only: had two neighbouring lines of
\* different keywords stood in the other order, the call would have returned
\* with the same fissile index and the same min_fiss.
C12_DerivedOnceAtEnd ==
    /\ derived \in {0, 1}
    /\ pc \in {"rc_loop", "rc_check", "rc_min_fiss"} => derived = 0
    /\ pc = "rc_min_fiss" => (lines = <<>> /\ f = "closed")
    /\ Returned("read_constraints") => derived = 1
    /\ (Returned("read_constraints") /\ file.exists) =>
            \A k \in 1 .. (Len(file.lines) - 1) :
                Key(file.lines[k]) # Key(file.lines[k + 1]) =>
                    LET o == Parsed(pre, Swapped(file.lines, k))
                    IN  /\ o.result = "ok"
                        /\ FissileIndex(o.self) = FissileIndex(self)
                        /\ o.self.min_fiss = self.min_fiss

\* read_constraints has returned from a file of a 'Fissile Foil' line and a
\* 'TOAD Activation Foils' line, where the index resolved after the first
\* line alone is not the index the final values give
C12_Witness ==
    /\ Returned("read_constraints")
    /\ derived = 1
    /\ file.exists
    /\ Len(file.lines) = 2
    /\ Carrying(file.lines, FissileKw) # {}
    /\ Carrying(file.lines, ToadFoilsKw) # {}
    /\ FissileIndex(Dispatch(pre, file.lines[1]).self) # FissileIndex(self)

\* C13: whatever read_obj and read_constraints calls are made on a model, a
\* second model constructed with the default arguments reads every attribute
\* as it was constructed, and a list attribute of the first model that is
\* still bound to a default object holds what the second model reads there:
\* the parsers bind list attributes to new lists and change no list in place.
C13_SecondModelIndependent ==
    /\ other = Other0
    /\ \A x \in shared : self[x] = other[x]

\* the first model was constructed with the default arguments, so that all
\* its list attributes were bound to the default objects; two parser calls
\* later its spectrum and its TOAD foil materials differ from those of the
\* second model, and its NAS lists are still the shared objects
C13_Witness ==
    /\ pc = "idle"
    /\ ctor = Args0
    /\ calls = 2
    /\ self.spectrum # other.spectrum
    /\ self.toad_mat_f # other.toad_mat_f
    /\ shared = {"t_nas_f", "nas_mat_f", "t_toad"}

====
